---- MODULE Spec2Model ----
(***************************************************************************)
(* A model of the driver registry (core/driver_manager.py), the page       *)
(* object base class (core/page_base.py, pages/base_page.py), the element  *)
(* and wait helpers (core/element_handler.py, core/wait_handler.py) and    *)
(* the report generator (utils/report_generator.py, tests/conftest.py).    *)
(***************************************************************************)
EXTENDS Integers, Sequences, FiniteSets, TLC

(* ---------------------------------------------------------------------- *)
(* Bounds                                                                 *)
(* ---------------------------------------------------------------------- *)
NumNames == 2
MaxHandles == 2
MaxNest == 1
MaxTimeout == 2
MaxEvalTicks == 2
MaxResults == 3
MaxClock == 2
MaxExitCode == 2

\* the threads that use the one global driver_manager
Threads == {1, 2}
\* the thread that runs the tests
MainThread == CHOOSE t \in Threads : TRUE
UserNames == 1..NumNames
\* temp_name = f"temp_{id(threading.current_thread())}": one name per thread
TempName(t) == 0 - t
AllNames == UserNames \cup {TempName(t) : t \in Threads}
Handles == 1..MaxHandles
NoHandle == 0
NoThread == 0
NoName == 0
NoTime == 0 - 1

VARIABLES
    drivers,     \* DriverManager._drivers: name -> handle (NoHandle = absent)
    lock,        \* DriverManager._lock: the thread holding it, or NoThread
    shut,        \* handles on which quit()/close() has taken effect
    nextHandle,  \* the identity of the next object a constructor returns
    stack,       \* per thread: the call stack of registry calls, top first
    last,        \* the outcome of the call that returned to user code in the step
                 \* that led to this state (NoResult after any other step)
    serial,      \* the registry obtained by running the finished calls serially
    linearizable \* every finished call agreed with the serial registry

regVars == <<drivers, lock, shut, nextHandle, stack, last, serial, linearizable>>

\* One call of an ElementHandler or WaitHandler operation at a time
VARIABLES
    op,          \* the operation called last ("none" before the first call)
    pc,          \* "idle", or inside the polling loop: "test", "eval", "sleep"; "done"
    drv,         \* what self.page.driver is for this call: "browser", "session", "missing"
    broken,      \* every call into the driver library raises during this call
    timeout,     \* the deadline of the polling loop, in ticks since its start
    elapsed,     \* time.time() - start_time, in ticks
    result,      \* what the operation returned ("raised": an exception reached the caller)
    sawTrue,     \* some evaluation of the condition returned true
    sawRaise,    \* some evaluation of the condition raised
    evalAt,      \* the elapsed time at which the last evaluation began (-1: none)
    given        \* the timeout argument of the call (to), what the driver's wait
                 \* (w), driver.ele() (f) and the element's click()/input() (c) do
                 \* during it, and the click()/input() calls it made (acts)

opVars == <<op, pc, drv, broken, timeout, elapsed, result, sawTrue, sawRaise, evalAt, given>>

\* One page object (PageBase / BasePage)
VARIABLES
    p_name,      \* PageBase.driver_name (NoName: no page object constructed yet)
    p_drv,       \* PageBase._driver: NoHandle (None), a page handle h, or the
                 \* frame object -h obtained from handle h
    p_res        \* the operation of the page object that was called last, what
                 \* the library did in it and how it ended

pageVars == <<p_name, p_drv, p_res>>

\* The global report_generator
VARIABLES
    test_results, \* ReportGenerator.test_results
    start_time,   \* ReportGenerator.start_time (NoTime: None)
    end_time,     \* ReportGenerator.end_time
    now,          \* datetime.now()
    report,       \* what the report generation called last returned
    stats,        \* the statistics it computed
    added,        \* the records given to add_test_result since the last
                  \* start_test_session, in the order of the calls
    run           \* the test the runner is executing: the phase that comes next,
                  \* and the records the hook has added for it

repVars == <<test_results, start_time, end_time, now, report, stats, added, run>>

\* One invocation of the test-run script (run_tests.py) at a time
VARIABLES
    main         \* the command line of the last invocation (argc: len(sys.argv),
                 \* flags: the options given, test: the value of --test), what
                 \* main() did with it (help: show_help was called, ran: the
                 \* actions it started, raised, code: how the action ended) and
                 \* the exit code it returned

mainVars == <<main>>

vars == <<regVars, opVars, pageVars, repVars, mainVars>>

notOp == <<regVars, pageVars, repVars, mainVars>>
notRep == <<regVars, opVars, pageVars, mainVars>>
notMain == <<regVars, opVars, pageVars, repVars>>

(* ---------------------------------------------------------------------- *)
(* Call frames                                                            *)
(* ---------------------------------------------------------------------- *)
\* fn, pc: the function and the point it has reached; name: its name argument;
\* h: the driver it constructed or shut down; prior: the driver it found
\* registered; res: its result; todo: the names close_all_drivers has still
\* to close; lib: what the library call in it did; before: the registry when
\* it took the lock; used, acc: the dictionary iterator of list_drivers and
\* the items it has produced
Frame(fn, at, name) ==
    [fn |-> fn, pc |-> at, name |-> name,
     h |-> NoHandle, prior |-> NoHandle, res |-> "none", todo |-> {},
     lib |-> "none", before |-> <<>>, used |-> 0, acc |-> {}]

NoResult ==
    [t |-> NoThread, fn |-> "none", name |-> NoName, res |-> "none", h |-> NoHandle,
     prior |-> NoHandle, lib |-> "none", before |-> <<>>, val |-> {}]

\* no report generation has just ended
NoReport == [by |-> "none", ret |-> "none", io |-> "none"]

\* no page operation has just ended
NoPageResult == [op |-> "none", lib |-> "none", out |-> "none"]

Top(t) == Head(stack[t])
Running(t, fn, at) == stack[t] # <<>> /\ Top(t).fn = fn /\ Top(t).pc = at

\* user code runs on a thread when it is in no registry call, or inside the
\* body of a get_temp_driver scope
AtUserCode(t) == stack[t] = <<>> \/ Running(t, "temp", "body")

\* the number of constructor calls still to come from calls already started
PendingCreates ==
    Cardinality({t \in Threads : \E i \in 1..Len(stack[t]) : stack[t][i].fn = "create"})

CanCall(t) ==
    /\ AtUserCode(t)
    /\ Len(stack[t]) <= MaxNest

\* the caller's continuation once a callee returned res (and handle hd)
Deliver(rest, res, hd) ==
    IF rest = <<>> THEN rest
    ELSE LET c == Head(rest) IN
         IF c.fn = "create" /\ c.pc = "closing"
         THEN <<[c EXCEPT !.pc = "construct"]>> \o Tail(rest)
         ELSE IF c.fn = "close_all" /\ c.pc = "closing"
         THEN <<[c EXCEPT !.pc = "loop"]>> \o Tail(rest)
         ELSE IF c.fn = "temp" /\ c.pc = "creating"
         THEN IF res = "ok"
              THEN <<[c EXCEPT !.pc = "body", !.h = hd]>> \o Tail(rest)
              ELSE <<[c EXCEPT !.pc = "finally", !.res = "raised"]>> \o Tail(rest)
         ELSE IF c.fn = "temp" /\ c.pc = "closing"
         THEN <<[c EXCEPT !.pc = "exit"]>> \o Tail(rest)
         ELSE rest

\* a call made by user code leaves its outcome with the user code
ToUser(rest) == rest = <<>> \/ (Head(rest).fn = "temp" /\ Head(rest).pc = "body")

Outcome(t, f, res, hd, prior) ==
    [t |-> t, fn |-> f.fn, name |-> f.name, res |-> res, h |-> hd, prior |-> prior,
     lib |-> f.lib, before |-> f.before, val |-> f.acc]

(* ---------------------------------------------------------------------- *)
(* Init                                                                   *)
(* ---------------------------------------------------------------------- *)
\* the state after `driver_manager = DriverManager()`, with no operation of a
\* handler called yet
Init ==
    /\ drivers = [n \in AllNames |-> NoHandle]
    /\ lock = NoThread
    /\ shut = {}
    /\ nextHandle = 1
    /\ stack = [t \in Threads |-> <<>>]
    /\ last = NoResult
    /\ serial = [n \in AllNames |-> NoHandle]
    /\ linearizable = TRUE
    /\ op = "none"
    /\ pc = "idle"
    /\ drv = "browser"
    /\ broken = FALSE
    /\ timeout = 0
    /\ elapsed = 0
    /\ result = "none"
    /\ sawTrue = FALSE
    /\ sawRaise = FALSE
    /\ evalAt = 0 - 1
    /\ given = [to |-> 0 - 1, w |-> "none", f |-> "none", c |-> "none", acts |-> 0]
    /\ p_name = NoName
    /\ p_drv = NoHandle
    /\ p_res = NoPageResult
    /\ test_results = <<>>
    /\ start_time = NoTime
    /\ end_time = NoTime
    /\ now = 0
    /\ report = NoReport
    /\ stats = [total_tests |-> 0 - 1, passed_tests |-> 0, failed_tests |-> 0,
                skipped_tests |-> 0, pass_rate |-> 0, duration |-> 0]
    /\ added = <<>>
    /\ run = [phase |-> "none", recs |-> 0]
    /\ main = [argc |-> 0, flags |-> {}, test |-> "None", help |-> FALSE, ran |-> <<>>,
               raised |-> FALSE, code |-> 0, exit_code |-> 0]

(* ---------------------------------------------------------------------- *)
(* threading.Lock                                                         *)
(* ---------------------------------------------------------------------- *)
\* (a registry without the lock: acquire always returns)
CanAcquire_NoLock(t) == TRUE

\* Lock.acquire() by thread t returns only while nobody holds the lock; the
\* lock is not reentrant, so the holder itself is blocked as well
CanAcquire(t) == lock = NoThread

\* (a with block that keeps the lock when it is left)
Release_Held == lock' = lock

\* leaving `with self._lock` releases the lock
Release == lock' = NoThread

\* the top frame of t returns res to its caller
Finish(t, res, hd, prior) ==
    LET f == Top(t)
        rest == Tail(stack[t])
    IN /\ stack' = [stack EXCEPT ![t] = Deliver(rest, res, hd)]
       /\ last' = IF ToUser(rest)
                  THEN Outcome(t, f, res, hd, prior)
                  ELSE NoResult

Goto(t, at) == stack' = [stack EXCEPT ![t] = <<[Top(t) EXCEPT !.pc = at]>> \o Tail(stack[t])]

\* the top frame of t has taken the lock and goes on at `at`
Enter(t, at) ==
    stack' = [stack EXCEPT ![t] =
        <<[Top(t) EXCEPT !.pc = at, !.before = drivers]>> \o Tail(stack[t])]

(* ---------------------------------------------------------------------- *)
(* create_chromium_page / create_session_page / create_web_page           *)
(* ---------------------------------------------------------------------- *)
\* user code calls create_chromium_page(name), create_session_page(name) or
\* create_web_page(name): the three differ only in the class they construct
CallCreate(t, n) ==
    /\ CanCall(t)
    /\ p_res' = NoPageResult
    /\ UNCHANGED <<opVars, repVars, mainVars, p_name, p_drv>>
    /\ nextHandle + PendingCreates <= MaxHandles
    /\ stack' = [stack EXCEPT ![t] = <<Frame("create", "acquire", n)>> \o @]
    /\ last' = NoResult
    /\ UNCHANGED <<drivers, lock, shut, nextHandle, serial, linearizable>>

\* with self._lock:
CreateAcquire(t) ==
    /\ Running(t, "create", "acquire")
    /\ p_res' = NoPageResult
    /\ UNCHANGED <<opVars, repVars, mainVars, p_name, p_drv>>
    /\ CanAcquire(t)
    /\ lock' = t
    /\ Enter(t, "check")
    /\ last' = NoResult
    /\ UNCHANGED <<drivers, shut, nextHandle, serial, linearizable>>

\* if name in self._drivers: self.close_driver(name)
CreateCheck(t) ==
    /\ Running(t, "create", "check")
    /\ p_res' = NoPageResult
    /\ UNCHANGED <<opVars, repVars, mainVars, p_name, p_drv>>
    /\ LET f == Top(t) IN
       IF drivers[f.name] # NoHandle
       THEN stack' = [stack EXCEPT ![t] =
                <<Frame("close", "acquire", f.name),
                  [f EXCEPT !.pc = "closing", !.prior = drivers[f.name]]>> \o Tail(@)]
       ELSE Goto(t, "construct")
    /\ last' = NoResult
    /\ UNCHANGED <<drivers, lock, shut, nextHandle, serial, linearizable>>

\* page = ChromiumPage(...) | SessionPage(...) | WebPage(...);
\* self._drivers[name] = page   -- or the constructor raises
CreateConstruct(t) ==
    /\ Running(t, "create", "construct")
    /\ p_res' = NoPageResult
    /\ UNCHANGED <<opVars, repVars, mainVars, p_name, p_drv>>
    /\ LET f == Top(t) IN
       \E ok \in BOOLEAN :
          IF ok
          THEN /\ nextHandle <= MaxHandles
               /\ drivers' = [drivers EXCEPT ![f.name] = nextHandle]
               /\ nextHandle' = nextHandle + 1
               /\ stack' = [stack EXCEPT ![t] =
                      <<[f EXCEPT !.pc = "exit", !.res = "ok", !.h = nextHandle,
                                  !.lib = "ok"]>> \o Tail(@)]
          ELSE /\ stack' = [stack EXCEPT ![t] =
                      <<[f EXCEPT !.pc = "exit", !.res = "raised", !.lib = "raise"]>> \o Tail(@)]
               /\ UNCHANGED <<drivers, nextHandle>>
    /\ last' = NoResult
    /\ UNCHANGED <<lock, shut, serial, linearizable>>

\* return page / raise, leaving the with block
CreateExit(t) ==
    /\ Running(t, "create", "exit")
    /\ p_res' = NoPageResult
    /\ UNCHANGED <<opVars, repVars, mainVars, p_name, p_drv>>
    /\ LET f == Top(t) IN
       /\ Release
       /\ Finish(t, f.res, f.h, f.prior)
       /\ IF f.res = "ok"
          THEN /\ serial' = [serial EXCEPT ![f.name] = f.h]
               /\ linearizable' = (linearizable /\ serial[f.name] = NoHandle)
          ELSE UNCHANGED <<serial, linearizable>>
    /\ UNCHANGED <<drivers, shut, nextHandle>>

(* ---------------------------------------------------------------------- *)
(* close_driver                                                           *)
(* ---------------------------------------------------------------------- *)
\* (a shutdown call that may return without having shut the driver down)
Completed_Maybe(ok, effect) == TRUE

\* a quit()/close() that returns has shut the driver down; one that raises
\* may or may not have
Completed(ok, effect) == ok => effect

\* (an except branch that reports success)
OnShutdownError_True == "true"

\* except Exception as e: logger.error(...); return False
OnShutdownError == "false"

\* (a del that empties the dictionary)
Without_All(d, n) == [m \in DOMAIN d |-> NoHandle]

\* del self._drivers[name]
Without(d, n) == [d EXCEPT ![n] = NoHandle]

CallClose(t, n) ==
    /\ CanCall(t)
    /\ p_res' = NoPageResult
    /\ UNCHANGED <<opVars, repVars, mainVars, p_name, p_drv>>
    /\ stack' = [stack EXCEPT ![t] = <<Frame("close", "acquire", n)>> \o @]
    /\ last' = NoResult
    /\ UNCHANGED <<drivers, lock, shut, nextHandle, serial, linearizable>>

\* with self._lock:
CloseAcquire(t) ==
    /\ Running(t, "close", "acquire")
    /\ p_res' = NoPageResult
    /\ UNCHANGED <<opVars, repVars, mainVars, p_name, p_drv>>
    /\ CanAcquire(t)
    /\ lock' = t
    /\ Enter(t, "check")
    /\ last' = NoResult
    /\ UNCHANGED <<drivers, shut, nextHandle, serial, linearizable>>

\* if name not in self._drivers: return False
CloseCheck(t) ==
    /\ Running(t, "close", "check")
    /\ p_res' = NoPageResult
    /\ UNCHANGED <<opVars, repVars, mainVars, p_name, p_drv>>
    /\ LET f == Top(t) IN
       IF drivers[f.name] = NoHandle
       THEN stack' = [stack EXCEPT ![t] = <<[f EXCEPT !.pc = "exit", !.res = "false"]>> \o Tail(@)]
       ELSE Goto(t, "shutdown")
    /\ last' = NoResult
    /\ UNCHANGED <<drivers, lock, shut, nextHandle, serial, linearizable>>

\* driver = self._drivers[name]; driver.quit() if the class has quit, else
\* driver.close() (every page class has one of the two).  The call
\* either returns, or raises (caught: return False); when it raises the
\* driver may or may not have been shut down already.
CloseShutdown(t) ==
    /\ Running(t, "close", "shutdown")
    /\ p_res' = NoPageResult
    /\ UNCHANGED <<opVars, repVars, mainVars, p_name, p_drv>>
    /\ LET f == Top(t)
           d == drivers[f.name]
       IN IF d = NoHandle
          THEN \* KeyError inside the try block
               /\ stack' = [stack EXCEPT ![t] = <<[f EXCEPT !.pc = "exit", !.res = "false"]>> \o Tail(@)]
               /\ UNCHANGED shut
          ELSE \E ok \in BOOLEAN, effect \in BOOLEAN :
               /\ Completed(ok, effect)
               /\ shut' = IF effect THEN shut \cup {d} ELSE shut
               /\ stack' = [stack EXCEPT ![t] =
                      <<[f EXCEPT !.pc = IF ok THEN "del" ELSE "exit",
                                  !.res = IF ok THEN "none" ELSE OnShutdownError,
                                  !.lib = IF ok THEN "ok" ELSE "raise",
                                  !.prior = IF d \in shut THEN d ELSE NoHandle,
                                  !.h = d]>> \o Tail(@)]
    /\ last' = NoResult
    /\ UNCHANGED <<drivers, lock, nextHandle, serial, linearizable>>

\* del self._drivers[name]; return True
CloseDel(t) ==
    /\ Running(t, "close", "del")
    /\ p_res' = NoPageResult
    /\ UNCHANGED <<opVars, repVars, mainVars, p_name, p_drv>>
    /\ LET f == Top(t) IN
       IF drivers[f.name] = NoHandle
       THEN \* KeyError inside the try block
            /\ stack' = [stack EXCEPT ![t] = <<[f EXCEPT !.pc = "exit", !.res = "false"]>> \o Tail(@)]
            /\ UNCHANGED drivers
       ELSE /\ drivers' = Without(drivers, f.name)
            /\ stack' = [stack EXCEPT ![t] = <<[f EXCEPT !.pc = "exit", !.res = "true"]>> \o Tail(@)]
    /\ last' = NoResult
    /\ UNCHANGED <<lock, shut, nextHandle, serial, linearizable>>

\* leaving the with block with the result
CloseExit(t) ==
    /\ Running(t, "close", "exit")
    /\ p_res' = NoPageResult
    /\ UNCHANGED <<opVars, repVars, mainVars, p_name, p_drv>>
    /\ LET f == Top(t) IN
       /\ Release
       /\ Finish(t, f.res, f.h, f.prior)
       /\ linearizable' = (linearizable /\ serial[f.name] = f.h)
       /\ serial' = IF f.res = "true" THEN [serial EXCEPT ![f.name] = NoHandle] ELSE serial
    /\ UNCHANGED <<drivers, shut, nextHandle>>

(* ---------------------------------------------------------------------- *)
(* close_all_drivers                                                      *)
(* ---------------------------------------------------------------------- *)
CallCloseAll(t) ==
    /\ CanCall(t)
    /\ p_res' = NoPageResult
    /\ UNCHANGED <<opVars, repVars, mainVars, p_name, p_drv>>
    /\ stack' = [stack EXCEPT ![t] = <<Frame("close_all", "acquire", NoName)>> \o @]
    /\ last' = NoResult
    /\ UNCHANGED <<drivers, lock, shut, nextHandle, serial, linearizable>>

\* with self._lock: driver_names = list(self._drivers.keys())
CloseAllAcquire(t) ==
    /\ Running(t, "close_all", "acquire")
    /\ p_res' = NoPageResult
    /\ UNCHANGED <<opVars, repVars, mainVars, p_name, p_drv>>
    /\ CanAcquire(t)
    /\ lock' = t
    /\ stack' = [stack EXCEPT ![t] =
           <<[Top(t) EXCEPT !.pc = "loop", !.before = drivers,
                            !.todo = {n \in AllNames : drivers[n] # NoHandle}]>> \o Tail(@)]
    /\ last' = NoResult
    /\ UNCHANGED <<drivers, shut, nextHandle, serial, linearizable>>

\* for name in driver_names: self.close_driver(name)
\* (the names are taken in any order; the dictionary's insertion order is
\* one of them)
CloseAllLoop(t) ==
    /\ Running(t, "close_all", "loop")
    /\ p_res' = NoPageResult
    /\ UNCHANGED <<opVars, repVars, mainVars, p_name, p_drv>>
    /\ LET f == Top(t) IN
       IF f.todo # {}
       THEN \E n \in f.todo :
              stack' = [stack EXCEPT ![t] =
                  <<Frame("close", "acquire", n),
                    [f EXCEPT !.pc = "closing", !.todo = @ \ {n}]>> \o Tail(@)]
       ELSE Goto(t, "exit")
    /\ last' = NoResult
    /\ UNCHANGED <<drivers, lock, shut, nextHandle, serial, linearizable>>

\* logger.info(...); leaving the with block
CloseAllExit(t) ==
    /\ Running(t, "close_all", "exit")
    /\ p_res' = NoPageResult
    /\ UNCHANGED <<opVars, repVars, mainVars, p_name, p_drv>>
    /\ Release
    /\ Finish(t, "ok", NoHandle, NoHandle)
    /\ UNCHANGED <<drivers, shut, nextHandle, serial, linearizable>>

(* ---------------------------------------------------------------------- *)
(* get_temp_driver                                                        *)
(* ---------------------------------------------------------------------- *)
\* with driver_manager.get_temp_driver(driver_type): the generator runs up
\* to the create_* call, or raises ValueError for an unknown driver_type
TempEnter(t, known) ==
    /\ CanCall(t)
    /\ p_res' = NoPageResult
    /\ UNCHANGED <<opVars, repVars, mainVars, p_name, p_drv>>
    /\ nextHandle + PendingCreates <= MaxHandles
    /\ last' = NoResult
    /\ IF known
       THEN stack' = [stack EXCEPT ![t] =
                <<Frame("create", "acquire", TempName(t)),
                  Frame("temp", "creating", TempName(t))>> \o @]
       ELSE stack' = [stack EXCEPT ![t] =
                <<[Frame("temp", "finally", TempName(t)) EXCEPT !.res = "raised"]>> \o @]
    /\ UNCHANGED <<drivers, lock, shut, nextHandle, serial, linearizable>>

\* the with body ends, normally or by an exception
TempBodyEnd(t, raised) ==
    /\ Running(t, "temp", "body")
    /\ p_res' = NoPageResult
    /\ UNCHANGED <<opVars, repVars, mainVars, p_name, p_drv>>
    /\ stack' = [stack EXCEPT ![t] =
           <<[Top(t) EXCEPT !.pc = "finally",
                            !.res = IF raised THEN "raised" ELSE "ok"]>> \o Tail(@)]
    /\ last' = NoResult
    /\ UNCHANGED <<drivers, lock, shut, nextHandle, serial, linearizable>>

\* finally: self.close_driver(temp_name)
TempFinally(t) ==
    /\ Running(t, "temp", "finally")
    /\ p_res' = NoPageResult
    /\ UNCHANGED <<opVars, repVars, mainVars, p_name, p_drv>>
    /\ LET f == Top(t) IN
       stack' = [stack EXCEPT ![t] =
           <<Frame("close", "acquire", f.name),
             [f EXCEPT !.pc = "closing"]>> \o Tail(@)]
    /\ last' = NoResult
    /\ UNCHANGED <<drivers, lock, shut, nextHandle, serial, linearizable>>

\* the scope is left: normally, or with the pending exception
TempExit(t) ==
    /\ Running(t, "temp", "exit")
    /\ p_res' = NoPageResult
    /\ UNCHANGED <<opVars, repVars, mainVars, p_name, p_drv>>
    /\ LET f == Top(t) IN Finish(t, f.res, f.h, NoHandle)
    /\ UNCHANGED <<drivers, lock, shut, nextHandle, serial, linearizable>>

(* ---------------------------------------------------------------------- *)
(* get_driver / get_driver_info / list_drivers: no lock is taken          *)
(* ---------------------------------------------------------------------- *)
\* (a lookup that ignores the name it is given)
Lookup_First(d, n) == d[CHOOSE m \in UserNames : TRUE]

\* self._drivers.get(name): the handle, or None
Lookup(d, n) == d[n]

\* self._drivers.keys() and self._drivers.items()
Keys(d) == {n \in DOMAIN d : d[n] # NoHandle}
Items(d) == {<<n, d[n]>> : n \in Keys(d)}

\* the outcome of a reader that returns at once
Answer(t, fn, n, res, hd, val) ==
    [NoResult EXCEPT !.t = t, !.fn = fn, !.name = n, !.res = res, !.h = hd, !.val = val]

\* what a reader leaves alone: everything but its own outcome
ReadFrame ==
    /\ p_res' = NoPageResult
    /\ UNCHANGED <<opVars, repVars, mainVars, p_name, p_drv>>
    /\ UNCHANGED <<drivers, lock, shut, nextHandle, serial, linearizable>>

\* get_driver(name): return self._drivers.get(name)
GetDriver(t, n) ==
    /\ AtUserCode(t)
    /\ last' = Answer(t, "get", n, "ok", Lookup(drivers, n), {})
    /\ UNCHANGED stack
    /\ ReadFrame

\* get_driver_info(name): None for an unregistered name, else a dictionary
\* with "name": name (its other keys are read from the driver; an exception
\* while reading them is passed over)
GetDriverInfo(t, n) ==
    /\ AtUserCode(t)
    /\ LET d == Lookup(drivers, n) IN
       last' = IF d = NoHandle
               THEN Answer(t, "info", n, "None", NoHandle, {})
               ELSE Answer(t, "info", n, "info", d, {<<"name", n>>})
    /\ UNCHANGED stack
    /\ ReadFrame

\* list_drivers(): the comprehension creates the iterator of
\* self._drivers.items(), which remembers the size of the dictionary
CallList(t) ==
    /\ CanCall(t)
    /\ stack' = [stack EXCEPT ![t] =
           <<[Frame("list", "iter", NoName) EXCEPT !.used = Cardinality(Keys(drivers))]>> \o @]
    /\ last' = NoResult
    /\ ReadFrame

\* one step of the iterator (CPython 3.8 and later).  Entries are kept in
\* insertion order, which is the order of the handles because an entry is
\* only ever inserted under an absent name; f.h is the entry visited last.
\* RuntimeError when the size differs from the remembered one, or when an
\* entry is found after as many items as the remembered size were produced.
\* When no entry is left the comprehension returns the dictionary it built.
ListNext(t) ==
    /\ Running(t, "list", "iter")
    /\ LET f == Top(t)
           later == {n \in Keys(drivers) : drivers[n] > f.h}
       IN IF Cardinality(Keys(drivers)) # f.used
          THEN Finish(t, "raised", NoHandle, NoHandle)
          ELSE IF later = {}
          THEN Finish(t, "ok", NoHandle, NoHandle)
          ELSE IF Cardinality(f.acc) = f.used
          THEN Finish(t, "raised", NoHandle, NoHandle)
          ELSE LET n == CHOOSE m \in later : \A k \in later : drivers[m] <= drivers[k]
               IN /\ stack' = [stack EXCEPT ![t] =
                         <<[f EXCEPT !.h = drivers[n],
                                     !.acc = @ \cup {<<n, drivers[n]>>}]>> \o Tail(@)]
                  /\ last' = NoResult
    /\ ReadFrame

Read(t) ==
    \/ \E n \in UserNames : GetDriver(t, n)
    \/ \E n \in UserNames : GetDriverInfo(t, n)
    \/ CallList(t)
    \/ ListNext(t)

(* ---------------------------------------------------------------------- *)
(* The registry specification                                             *)
(* ---------------------------------------------------------------------- *)
Step(t) ==
    \/ \E n \in UserNames : CallCreate(t, n)
    \/ CreateAcquire(t)
    \/ CreateCheck(t)
    \/ CreateConstruct(t)
    \/ CreateExit(t)
    \/ \E n \in UserNames : CallClose(t, n)
    \/ CloseAcquire(t)
    \/ CloseCheck(t)
    \/ CloseShutdown(t)
    \/ CloseDel(t)
    \/ CloseExit(t)
    \/ CallCloseAll(t)
    \/ CloseAllAcquire(t)
    \/ CloseAllLoop(t)
    \/ CloseAllExit(t)
    \/ \E known \in BOOLEAN : TempEnter(t, known)
    \/ \E raised \in BOOLEAN : TempBodyEnd(t, raised)
    \/ TempFinally(t)
    \/ TempExit(t)

Next == \E t \in Threads : Step(t)

Spec == Init /\ [][Next]_vars

\* one thread changes the registry while any thread reads it
ReadNext ==
    \/ Step(MainThread)
    \/ \E t \in Threads : Read(t)

ReadSpec == Init /\ [][ReadNext]_vars

TypeOK ==
    /\ drivers \in [AllNames -> Handles \cup {NoHandle}]
    /\ lock \in Threads \cup {NoThread}
    /\ shut \subseteq Handles
    /\ nextHandle \in 1..(MaxHandles + 1)
    /\ p_name \in UserNames \cup {NoName}
    /\ p_drv \in {NoHandle} \cup Handles \cup {0 - h : h \in Handles}
    /\ p_res.out \in {"none", "self", "raised"}
    /\ Len(test_results) <= MaxResults
    /\ start_time \in {NoTime} \cup (0..MaxClock)
    /\ end_time \in {NoTime} \cup (0..MaxClock)
    /\ now \in 0..MaxClock
    /\ report.by \in {"none", "html", "json", "summary"}
    /\ report.ret \in {"none", "path", "", "summary"}

(* ====================================================================== *)
(* ElementHandler and WaitHandler                                         *)
(* ====================================================================== *)
\* time is counted in ticks of half a second, the polling interval
TicksPerSecond == 2
\* time.sleep(0.5)
SleepTicks == 1
\* (a loop whose sleep lets no time pass)
AfterSleep_NoAdvance(e) == e

\* the clock after time.sleep(0.5)
AfterSleep(e) == e + SleepTicks

\* settings.element_timeout, in seconds
ElementTimeout == 10
\* timeout=None
NoTimeout == 0 - 1

\* timeout = timeout or settings.element_timeout
EffectiveTimeout(to) == IF to = NoTimeout \/ to = 0 THEN ElementTimeout ELSE to

\* (a loop that still polls at the deadline itself)
DeadlineOpen_Inclusive(e, to) == e <= to

\* while time.time() - start_time < timeout

DeadlineOpen(e, to) == e < to

\* (a loop without the try/except around condition())
AfterEval_Propagate(c) ==
    IF c = "true" THEN "return" ELSE IF c = "raise" THEN "propagate" ELSE "sleep"

\* what the loop does with the outcome of condition(): return True, or
\* (false, or an exception, which is swallowed) sleep and poll again

AfterEval(c) == IF c = "true" THEN "return" ELSE "sleep"

\* hasattr(self.page.driver, 'wait'): the browser page classes have the wait
\* facility, SessionPage has not
HasWait(d) == d = "browser"

\* the outcomes of one call into the driver library
Lib(b, outcomes) == IF b THEN {"raise"} ELSE outcomes \cup {"raise"}

\* ElementHandler.find_element: driver.ele() gives an element, or a falsy
\* NoneElement; an exception (also from self.page.driver) gives NoneElement()
find_element(d, f) ==
    IF d = "missing" THEN "NoneElement"
    ELSE IF f = "elem" THEN "elem" ELSE "NoneElement"

\* ElementHandler.find_elements
find_elements(d, f) ==
    IF d = "missing" \/ f = "raise" THEN "EmptyList" ELSE "list"

\* ElementHandler.wait_for_element(locator, timeout, "displayed")
wait_for_element(d, w, f) ==
    IF d = "missing" THEN "None"
    ELSE IF HasWait(d)
         THEN IF w = "raise" THEN "None"
              ELSE IF find_element(d, f) = "elem" THEN "elem" ELSE "None"
         ELSE "None"

\* ElementHandler.click_element
click_element(d, w, f, c) ==
    IF wait_for_element(d, w, f) = "None" THEN "False"
    ELSE IF c = "raise" THEN "False" ELSE "True"

\* ElementHandler.input_text (clear=True): element.clear(); element.input(text)
input_text(d, w, f, c1, c2) ==
    IF wait_for_element(d, w, f) = "None" THEN "False"
    ELSE IF c1 = "raise" \/ c2 = "raise" THEN "False" ELSE "True"

\* the element.click() calls click_element makes
click_calls(d, w, f) == IF wait_for_element(d, w, f) = "None" THEN 0 ELSE 1

\* the element.input(text) calls input_text makes: none after a clear() that raised
input_calls(d, w, f, c1) ==
    IF wait_for_element(d, w, f) = "None" \/ c1 = "raise" THEN 0 ELSE 1

\* ElementHandler.get_text
get_text(d, f, a) ==
    IF find_element(d, f) = "NoneElement" THEN "EmptyString"
    ELSE IF a = "raise" THEN "EmptyString" ELSE "text"

\* ElementHandler.get_attribute: return value or ""
get_attribute(d, f, a) ==
    IF find_element(d, f) = "NoneElement" THEN "EmptyString"
    ELSE IF a = "ok" THEN "text" ELSE "EmptyString"

\* ElementHandler.is_displayed: element.states.is_displayed for a browser
\* element, True for a found SessionElement
is_displayed(d, f, a) ==
    IF find_element(d, f) = "NoneElement" THEN "False"
    ELSE IF d = "session" THEN "True"
    ELSE IF a = "shown" THEN "True" ELSE "False"

\* ElementHandler.get_element_screenshot
get_element_screenshot(d, f, a) ==
    IF find_element(d, f) = "NoneElement" THEN "EmptyString"
    ELSE IF d = "session" THEN "EmptyString"
    ELSE IF a = "raise" THEN "EmptyString" ELSE "path"

\* the operation calls into the driver library at least once
Talks(o, d) ==
    /\ d # "missing"
    /\ o \in {"wait_for_element", "click_element", "input_text",
              "wait_for_page_load", "wait_for_download_complete"} => HasWait(d)

\* the value each operation returns on failure
Sentinel(o) ==
    CASE o \in {"get_text", "get_attribute", "get_element_screenshot"} -> "EmptyString"
      [] o = "find_elements" -> "EmptyList"
      [] o = "find_element" -> "NoneElement"
      [] o = "wait_for_element" -> "None"
      [] OTHER -> "False"

PollingOps == {"wait_for_condition", "wait_for_title_contains", "wait_for_element_displayed",
               "wait_for_element_loaded", "wait_for_element_deleted"}

Drivers == {"browser", "session", "missing"}
Timeouts == {NoTimeout} \cup (0..MaxTimeout)
FindOutcomes == {"elem", "none"}

CanStart == pc \in {"idle", "done"}

\* no timeout argument, no library call made, no click() or input() call
NoGiven == [to |-> NoTimeout, w |-> "none", f |-> "none", c |-> "none", acts |-> 0]

\* an operation that returns r without polling, after the calls g
ReturnsAfter(o, d, b, r, g) ==
    /\ CanStart
    /\ op' = o
    /\ pc' = "done"
    /\ drv' = d
    /\ broken' = b
    /\ result' = r
    /\ timeout' = 0
    /\ elapsed' = 0
    /\ sawTrue' = FALSE
    /\ sawRaise' = FALSE
    /\ evalAt' = 0 - 1
    /\ given' = g
    /\ UNCHANGED notOp

\* an operation that returns r without polling
Returns(o, d, b, r) == ReturnsAfter(o, d, b, r, NoGiven)

\* an operation that enters _manual_wait_for_condition: start_time = time.time()
Polls(o, d, b, to) ==
    /\ CanStart
    /\ op' = o
    /\ pc' = "test"
    /\ drv' = d
    /\ broken' = b
    /\ result' = "none"
    /\ timeout' = EffectiveTimeout(to) * TicksPerSecond
    /\ elapsed' = 0
    /\ sawTrue' = FALSE
    /\ sawRaise' = FALSE
    /\ evalAt' = 0 - 1
    /\ given' = [NoGiven EXCEPT !.to = to]
    /\ UNCHANGED notOp

FindElement ==
    \E d \in Drivers, b \in BOOLEAN : \E f \in Lib(b, FindOutcomes) :
        Returns("find_element", d, b, find_element(d, f))

FindElements ==
    \E d \in Drivers, b \in BOOLEAN : \E f \in Lib(b, {"list"}) :
        Returns("find_elements", d, b, find_elements(d, f))

WaitForElement ==
    \E d \in Drivers, b \in BOOLEAN :
    \E w \in Lib(b, {"ok", "timeout"}), f \in Lib(b, FindOutcomes) :
        Returns("wait_for_element", d, b, wait_for_element(d, w, f))

ClickElement ==
    \E d \in Drivers, b \in BOOLEAN :
    \E w \in Lib(b, {"ok", "timeout"}), f \in Lib(b, FindOutcomes), c \in Lib(b, {"ok"}) :
        ReturnsAfter("click_element", d, b, click_element(d, w, f, c),
                     [NoGiven EXCEPT !.w = IF HasWait(d) THEN w ELSE "none", !.f = f,
                                     !.c = c, !.acts = click_calls(d, w, f)])

InputText ==
    \E d \in Drivers, b \in BOOLEAN :
    \E w \in Lib(b, {"ok", "timeout"}), f \in Lib(b, FindOutcomes),
       c1 \in Lib(b, {"ok"}), c2 \in Lib(b, {"ok"}) :
        ReturnsAfter("input_text", d, b, input_text(d, w, f, c1, c2),
                     [NoGiven EXCEPT !.w = IF HasWait(d) THEN w ELSE "none", !.f = f,
                                     !.c = IF c1 = "raise" THEN c1 ELSE c2,
                                     !.acts = input_calls(d, w, f, c1)])

GetText ==
    \E d \in Drivers, b \in BOOLEAN :
    \E f \in Lib(b, FindOutcomes), a \in Lib(b, {"ok"}) :
        Returns("get_text", d, b, get_text(d, f, a))

GetAttribute ==
    \E d \in Drivers, b \in BOOLEAN :
    \E f \in Lib(b, FindOutcomes), a \in Lib(b, {"ok", "absent"}) :
        Returns("get_attribute", d, b, get_attribute(d, f, a))

IsDisplayed ==
    \E d \in Drivers, b \in BOOLEAN :
    \E f \in Lib(b, FindOutcomes), a \in Lib(b, {"shown", "hidden"}) :
        Returns("is_displayed", d, b, is_displayed(d, f, a))

GetElementScreenshot ==
    \E d \in Drivers, b \in BOOLEAN :
    \E f \in Lib(b, FindOutcomes), a \in Lib(b, {"ok"}) :
        Returns("get_element_screenshot", d, b, get_element_screenshot(d, f, a))

\* WaitHandler.wait_for_element_displayed: with the wait facility the result
\* of driver.wait.ele_displayed is not looked at; without it the loop polls
\* is_displayed
WaitForElementDisplayed ==
    \E d \in Drivers, b \in BOOLEAN, to \in Timeouts :
        IF d = "missing" THEN Returns("wait_for_element_displayed", d, b, "False")
        ELSE IF HasWait(d)
        THEN \E w \in Lib(b, {"ok", "timeout"}) :
               ReturnsAfter("wait_for_element_displayed", d, b, IF w = "raise" THEN "False" ELSE "True",
                            [NoGiven EXCEPT !.to = to, !.w = w])
        ELSE Polls("wait_for_element_displayed", d, b, to)

\* WaitHandler.wait_for_element_loaded
WaitForElementLoaded ==
    \E d \in Drivers, b \in BOOLEAN, to \in Timeouts :
        IF d = "missing" THEN Returns("wait_for_element_loaded", d, b, "False")
        ELSE IF HasWait(d)
        THEN \E w \in Lib(b, {"ok", "timeout"}) :
               ReturnsAfter("wait_for_element_loaded", d, b, IF w = "raise" THEN "False" ELSE "True",
                            [NoGiven EXCEPT !.to = to, !.w = w])
        ELSE Polls("wait_for_element_loaded", d, b, to)

\* WaitHandler.wait_for_element_deleted: element.wait.deleted() when the
\* element is found on a driver with the wait facility, the polling loop on
\* `not is_displayed` otherwise
WaitForElementDeleted ==
    \E d \in Drivers, b \in BOOLEAN, to \in Timeouts :
        IF d = "missing" THEN Returns("wait_for_element_deleted", d, b, "False")
        ELSE \E f \in Lib(b, FindOutcomes) :
            IF HasWait(d) /\ find_element(d, f) = "elem"
            THEN \E w \in Lib(b, {"ok", "timeout"}) :
                   Returns("wait_for_element_deleted", d, b, IF w = "raise" THEN "False" ELSE "True")
            ELSE Polls("wait_for_element_deleted", d, b, to)

\* WaitHandler.wait_for_page_load
WaitForPageLoad ==
    \E d \in Drivers, b \in BOOLEAN :
        IF d = "missing" THEN Returns("wait_for_page_load", d, b, "False")
        ELSE IF HasWait(d)
        THEN \E w \in Lib(b, {"ok", "timeout"}) :
               Returns("wait_for_page_load", d, b, IF w = "raise" THEN "False" ELSE "True")
        ELSE Returns("wait_for_page_load", d, b, "True")

\* WaitHandler.wait_for_download_complete / wait_for_new_tab
WaitForDownloadComplete ==
    \E d \in Drivers, b \in BOOLEAN :
        IF d = "missing" THEN Returns("wait_for_download_complete", d, b, "False")
        ELSE IF HasWait(d)
        THEN \E w \in Lib(b, {"ok", "timeout"}) :
               Returns("wait_for_download_complete", d, b, IF w = "raise" THEN "False" ELSE "True")
        ELSE Returns("wait_for_download_complete", d, b, "False")

\* WaitHandler.wait_for_title_contains / wait_for_url_contains /
\* wait_for_text_present
WaitForTitleContains ==
    \E d \in Drivers, b \in BOOLEAN, to \in Timeouts :
        Polls("wait_for_title_contains", d, b, to)

\* WaitHandler.wait_for_condition
WaitForCondition ==
    \E d \in Drivers, b \in BOOLEAN, to \in Timeouts :
        Polls("wait_for_condition", d, b, to)

\* the outcomes condition() can have, by operation
ConditionOutcomes ==
    CASE op = "wait_for_condition" ->
           \* the caller's function
           IF broken \/ drv = "missing" THEN {"raise"} ELSE {"true", "false", "raise"}
      [] op = "wait_for_title_contains" ->
           \* text in self.page.get_title(): get_title returns "" on an exception
           IF broken \/ drv = "missing" THEN {"false"} ELSE {"true", "false"}
      [] op = "wait_for_element_displayed" ->
           \* is_displayed(locator, timeout=1)
           {IF is_displayed(drv, f, a) = "True" THEN "true" ELSE "false" :
               f \in Lib(broken, FindOutcomes), a \in Lib(broken, {"shown", "hidden"})}
      [] op = "wait_for_element_loaded" ->
           \* find_element(locator, timeout=1) is not None: find_element never
           \* returns None
           {"true"}
      [] op = "wait_for_element_deleted" ->
           \* not is_displayed(locator, timeout=1)
           {IF is_displayed(drv, f, a) = "True" THEN "false" ELSE "true" :
               f \in Lib(broken, FindOutcomes), a \in Lib(broken, {"shown", "hidden"})}
      [] OTHER -> {}

\* while time.time() - start_time < timeout:  ...  return False
PollTest ==
    /\ pc = "test"
    /\ IF DeadlineOpen(elapsed, timeout)
       THEN /\ pc' = "eval"
            /\ evalAt' = elapsed
            /\ UNCHANGED result
       ELSE /\ pc' = "done"
            /\ result' = "False"
            /\ UNCHANGED evalAt
    /\ UNCHANGED <<op, drv, broken, timeout, elapsed, sawTrue, sawRaise, given>>
    /\ UNCHANGED notOp

\* try: if condition(): return True / except Exception: pass
\* the evaluation takes d ticks
PollEval ==
    /\ pc = "eval"
    /\ \E c \in ConditionOutcomes, d \in 0..MaxEvalTicks :
        /\ elapsed' = elapsed + d
        /\ sawTrue' = (sawTrue \/ c = "true")
        /\ sawRaise' = (sawRaise \/ c = "raise")
        /\ IF AfterEval(c) = "return"
           THEN pc' = "done" /\ result' = "True"
           ELSE IF AfterEval(c) = "propagate"
           THEN pc' = "done" /\ result' = "raised"
           ELSE pc' = "sleep" /\ UNCHANGED result
    /\ UNCHANGED <<op, drv, broken, timeout, evalAt, given>>
    /\ UNCHANGED notOp

\* time.sleep(0.5)
PollSleep ==
    /\ pc = "sleep"
    /\ pc' = "test"
    /\ elapsed' = AfterSleep(elapsed)
    /\ UNCHANGED <<op, drv, broken, timeout, result, sawTrue, sawRaise, evalAt, given>>
    /\ UNCHANGED notOp

Poll == PollTest \/ PollEval \/ PollSleep

OpNext ==
    \/ FindElement
    \/ FindElements
    \/ WaitForElement
    \/ ClickElement
    \/ InputText
    \/ GetText
    \/ GetAttribute
    \/ IsDisplayed
    \/ GetElementScreenshot
    \/ WaitForElementDisplayed
    \/ WaitForElementLoaded
    \/ WaitForElementDeleted
    \/ WaitForPageLoad
    \/ WaitForDownloadComplete
    \/ WaitForTitleContains
    \/ WaitForCondition
    \/ PollTest
    \/ PollEval
    \/ PollSleep

OpSpec == Init /\ [][OpNext]_vars

\* the polling loop runs on the calling thread, which keeps running
OpFairSpec == OpSpec /\ WF_vars(Poll)

(* ====================================================================== *)
(* Page objects: core/page_base.py, pages/base_page.py                    *)
(* ====================================================================== *)
\* op: the operation; lib: what the library call in it did ("none": it was
\* not reached); out: "self" when the operation returned, "raised" when an
\* exception reached the caller
PageResult(o, lib, out) == [op |-> o, lib |-> lib, out |-> out]

\* the page handle a driver object belongs to, and the frame object that
\* get_frame returns for it
PageOf(d) == IF d < 0 THEN 0 - d ELSE d
FrameOf(d) == 0 - PageOf(d)

\* the `driver` property: the cached _driver, else the registry's entry for
\* driver_name (NoHandle: RuntimeError)
Resolved == IF p_drv # NoHandle THEN p_drv ELSE drivers[p_name]

\* an except block that logs and returns self
NavResult_Swallow(raised) == "self"

\* try: ...; return self / except Exception as e: logger.error(...); raise
NavResult(raised) == IF raised THEN "raised" ELSE "self"

\* a page operation runs in the test thread, between its registry calls
\* (possibly inside a get_temp_driver block)
CanUsePage == p_name # NoName /\ AtUserCode(MainThread)

\* what a page operation leaves alone outside the page object: everything
\* but the set of shut handles and the transient registry outcome
PageFrame ==
    /\ last' = NoResult
    /\ UNCHANGED <<drivers, lock, nextHandle, stack, serial, linearizable>>
    /\ UNCHANGED <<opVars, repVars, mainVars>>

\* PageBase.__init__(driver, driver_name, url): the driver is passed
\* explicitly (any page handle the test obtained) or left None
NewPage ==
    /\ AtUserCode(MainThread)
    /\ \E n \in UserNames, h \in {NoHandle} \cup (1..(nextHandle - 1)) :
          /\ p_name' = n
          /\ p_drv' = h
    /\ p_res' = NoPageResult
    /\ PageFrame
    /\ UNCHANGED shut

\* the body shared by open, refresh, back and forward: resolve the driver,
\* call the library (behind hasattr for back and forward), then
\* wait_for_page_load, which returns a bool that is ignored
Navigate(o, guarded) ==
    /\ CanUsePage
    /\ \E lib \in {"ok", "raise"}, has \in BOOLEAN :
          LET d == Resolved IN
          /\ (~guarded) => has
          /\ p_drv' = d
          /\ p_res' = IF d = NoHandle THEN PageResult(o, "none", NavResult(TRUE))
                      ELSE IF ~has THEN PageResult(o, "none", "self")
                      ELSE PageResult(o, lib, NavResult(lib = "raise"))
    /\ PageFrame
    /\ UNCHANGED <<p_name, shut>>

\* open(url): ValueError before the try block when neither the argument nor
\* the instance gives a URL
Open ==
    \E hasUrl \in BOOLEAN :
       IF hasUrl
       THEN Navigate("open", FALSE)
       ELSE /\ CanUsePage
            /\ p_res' = PageResult("open", "none", "raised")
            /\ PageFrame
            /\ UNCHANGED <<p_name, p_drv, shut>>

Refresh == Navigate("refresh", FALSE)

Back == Navigate("back", TRUE)

Forward == Navigate("forward", TRUE)

\* switch_to_frame(locator): on a found frame the page's driver becomes the
\* frame object
SwitchToFrame ==
    /\ CanUsePage
    /\ \E has \in BOOLEAN, fr \in {"frame", "none", "raise"} :
          LET d == Resolved
              o == "switch_to_frame"
          IN IF d = NoHandle
             THEN /\ p_drv' = d
                  /\ p_res' = PageResult(o, "none", NavResult(TRUE))
             ELSE IF ~has
             THEN /\ p_drv' = d
                  /\ p_res' = PageResult(o, "none", "self")
             ELSE /\ p_drv' = IF fr = "frame" THEN FrameOf(d) ELSE d
                  /\ p_res' = PageResult(o, IF fr = "raise" THEN "raise" ELSE "ok",
                                         NavResult(fr = "raise"))
    /\ PageFrame
    /\ UNCHANGED <<p_name, shut>>

\* switch_to_default_content(): self._driver = driver_manager.get_driver(
\* self.driver_name), None when the name is not registered
SwitchToDefaultContent ==
    /\ CanUsePage
    /\ p_drv' = drivers[p_name]
    /\ p_res' = PageResult("switch_to_default_content", "none", "self")
    /\ PageFrame
    /\ UNCHANGED <<p_name, shut>>

\* BasePage.close_current_tab(): self.driver.close() when the driver has
\* close; every exception is logged and self is returned.  A close() that
\* raises may or may not have closed the page.  The registry is not told.
CloseCurrentTab ==
    /\ CanUsePage
    /\ \E has \in BOOLEAN, ok \in BOOLEAN, effect \in BOOLEAN :
          LET d == Resolved
              o == "close_current_tab"
          IN /\ ok => effect
             /\ p_drv' = d
             /\ IF d = NoHandle \/ ~has
                THEN /\ p_res' = PageResult(o, "none", "self")
                     /\ UNCHANGED shut
                ELSE /\ p_res' = PageResult(o, IF ok THEN "ok" ELSE "raise", "self")
                     /\ shut' = IF effect /\ d > 0 THEN shut \cup {d} ELSE shut
    /\ PageFrame
    /\ UNCHANGED p_name

PageNext ==
    \/ Step(MainThread)
    \/ NewPage
    \/ Open
    \/ Refresh
    \/ Back
    \/ Forward
    \/ SwitchToFrame
    \/ SwitchToDefaultContent
    \/ CloseCurrentTab

PageSpec == Init /\ [][PageNext]_vars

(* ====================================================================== *)
(* Test results: utils/report_generator.py and the hook of conftest.py    *)
(* ====================================================================== *)
\* status values the statistics count
Statuses == {"PASS", "FAIL", "SKIP"}

\* what a caller of add_test_result may put in a record: any status, or no
\* status key at all
GivenStatuses == Statuses \cup {"ERROR", "missing"}

\* a result record: its status, and who built it (the other keys -- name,
\* description, duration, error, timestamp -- are not modelled)
Record(s, by) == [status |-> s, by |-> by]

\* a status mapping that reports a failed test as an error
HookStatus_Error(outcome) ==
    IF outcome = "passed" THEN "PASS" ELSE IF outcome = "failed" THEN "ERROR" ELSE "SKIP"

\* "PASS" if rep.passed else "FAIL" if rep.failed else "SKIP"
HookStatus(outcome) ==
    IF outcome = "passed" THEN "PASS" ELSE IF outcome = "failed" THEN "FAIL" ELSE "SKIP"

\* whatever the report operations leave alone outside the generator
RepFrame == UNCHANGED notRep

\* no statistics have just been computed
NoStats ==
    [total_tests |-> 0 - 1, passed_tests |-> 0, failed_tests |-> 0,
     skipped_tests |-> 0, pass_rate |-> 0, duration |-> 0]

\* the runner is executing no test
NoRun == [phase |-> "none", recs |-> 0]

\* (a comparison that every record passes)
Counted_Any(r, s) == TRUE

\* result.get('status') == s
Counted(r, s) == r.status = s

\* sum(1 for result in self.test_results if result.get('status') == s)
Count(results, s) ==
    Cardinality({i \in 1..Len(results) : Counted(results[i], s)})

\* round((passed_tests / total_tests * 100) if total_tests > 0 else 0, 2), in
\* hundredths of a percent (no quotient of fewer than 32 records lies halfway
\* between two hundredths)
PassRate(passed, total) ==
    IF total > 0 THEN (2 * 10000 * passed + total) \div (2 * total) ELSE 0

\* duration = 0; if self.start_time and self.end_time: duration =
\* (self.end_time - self.start_time).total_seconds()
Duration(start, end) == IF start # NoTime /\ end # NoTime THEN end - start ELSE 0

\* ReportGenerator._calculate_statistics
Statistics(results, start, end) ==
    [total_tests |-> Len(results),
     passed_tests |-> Count(results, "PASS"),
     failed_tests |-> Count(results, "FAIL"),
     skipped_tests |-> Count(results, "SKIP"),
     pass_rate |-> PassRate(Count(results, "PASS"), Len(results)),
     duration |-> Duration(start, end)]

\* time passes
Tick ==
    /\ now < MaxClock
    /\ now' = now + 1
    /\ report' = NoReport
    /\ stats' = NoStats
    /\ UNCHANGED <<test_results, start_time, end_time, added, run>>
    /\ RepFrame

\* start_time = datetime.now(); test_results = []
StartTestSession ==
    /\ start_time' = now
    /\ test_results' = <<>>
    /\ added' = <<>>
    /\ report' = NoReport
    /\ stats' = NoStats
    /\ UNCHANGED <<end_time, now, run>>
    /\ RepFrame

\* end_time = datetime.now()
EndTestSession ==
    /\ end_time' = now
    /\ report' = NoReport
    /\ stats' = NoStats
    /\ UNCHANGED <<test_results, start_time, now, added, run>>
    /\ RepFrame

\* (a list that takes a new record at its front)
Appended_Front(results, r) == <<r>> \o results

\* self.test_results.append(test_result)
Appended(results, r) == Append(results, r)

\* test_result['timestamp'] = ...; self.test_results.append(test_result)
add_test_result(r) ==
    /\ Len(test_results) < MaxResults
    /\ test_results' = Appended(test_results, r)
    /\ added' = Append(added, r)
    /\ report' = NoReport
    /\ stats' = NoStats
    /\ UNCHANGED <<start_time, end_time, now>>
    /\ RepFrame

\* a direct call of report_generator.add_test_result(record)
AddTestResult ==
    /\ \E s \in GivenStatuses : add_test_result(Record(s, "caller"))
    /\ UNCHANGED run

\* pytest_runtest_makereport: a record is built and added for the call
\* phase only
pytest_runtest_makereport(when, outcome) ==
    IF when = "call"
    THEN add_test_result(Record(HookStatus(outcome), "hook"))
    ELSE /\ report' = NoReport
         /\ stats' = NoStats
         /\ UNCHANGED <<test_results, start_time, end_time, now, added>>
         /\ RepFrame

\* one call of the hook, for any phase and outcome
MakeReport ==
    /\ \E when \in {"setup", "call", "teardown"}, outcome \in {"passed", "failed", "skipped"} :
          pytest_runtest_makereport(when, outcome)
    /\ UNCHANGED run

\* the records the hook call of this step added
HookAdded == Len(test_results') - Len(test_results)

\* the runner sets a test up and reports the phase to the hook: a mark or a
\* fixture may skip the test here, a fixture may fail; the call phase
\* follows only a setup that passed
RunSetup ==
    /\ run.phase \in {"none", "done"}
    /\ \E outcome \in {"passed", "failed", "skipped"} :
          /\ pytest_runtest_makereport("setup", outcome)
          /\ run' = [phase |-> IF outcome = "passed" THEN "call" ELSE "teardown",
                     recs |-> HookAdded]

\* the runner calls the test function and reports the phase to the hook
RunCall ==
    /\ run.phase = "call"
    /\ \E outcome \in {"passed", "failed", "skipped"} :
          /\ pytest_runtest_makereport("call", outcome)
          /\ run' = [phase |-> "teardown", recs |-> run.recs + HookAdded]

\* the runner tears the test down and reports the phase to the hook
RunTeardown ==
    /\ run.phase = "teardown"
    /\ \E outcome \in {"passed", "failed"} :
          /\ pytest_runtest_makereport("teardown", outcome)
          /\ run' = [phase |-> "done", recs |-> run.recs + HookAdded]

\* by: the generator called; ret: what it returned ("path": the non-empty
\* path of the file, "": the empty string); io: whether the file was
\* written ("none": writing was not attempted)
Returned(by, ret, io) == [by |-> by, ret |-> ret, io |-> io]

\* the replacement fields str.format finds in html_template: the seven
\* statistics, the results block, and -- because the braces of the <style>
\* rules are not doubled -- one field per CSS rule, the first of them
\* named " font-family"
TemplateFields ==
    {"generation_time", "total_tests", "passed_tests", "failed_tests", "skipped_tests",
     "pass_rate", "duration", "test_results_html", " font-family"}

\* the keyword arguments of html_template.format(...)
FormatArgs ==
    {"generation_time", "total_tests", "passed_tests", "failed_tests", "skipped_tests",
     "pass_rate", "duration", "test_results_html"}

\* str.format: KeyError for a field that no argument names
format(fields, args) == IF fields \subseteq args THEN "text" ELSE "KeyError"

\* try: stats = self._calculate_statistics(), build, write, return
\* str(report_path)   except Exception: log, return ""
Generate(by, content) ==
    /\ stats' = Statistics(test_results, start_time, end_time)
    /\ IF content = "KeyError"
       THEN report' = Returned(by, "", "none")
       ELSE \E written \in BOOLEAN :
               report' = IF written THEN Returned(by, "path", "ok")
                                    ELSE Returned(by, "", "failed")
    /\ UNCHANGED <<test_results, start_time, end_time, now, added, run>>
    /\ RepFrame

\* generate_html_report: the content is html_template.format(...)
GenerateHtmlReport == Generate("html", format(TemplateFields, FormatArgs))

\* generate_json_report: the content is built by json.dump while writing
GenerateJsonReport == Generate("json", "text")

\* generate_summary_report: a dictionary computed from the results, with
\* the statistics as its test_summary
GenerateSummaryReport ==
    /\ stats' = Statistics(test_results, start_time, end_time)
    /\ report' = Returned("summary", "summary", "none")
    /\ UNCHANGED <<test_results, start_time, end_time, now, added, run>>
    /\ RepFrame

ReportNext ==
    \/ Tick
    \/ StartTestSession
    \/ EndTestSession
    \/ AddTestResult
    \/ MakeReport
    \/ GenerateHtmlReport
    \/ GenerateJsonReport
    \/ GenerateSummaryReport

ReportSpec == Init /\ [][ReportNext]_vars

\* the test session as the runner drives it: the test_session fixture
\* starts and ends it, and every test goes through its phases
HookNext ==
    \/ StartTestSession
    \/ EndTestSession
    \/ RunSetup
    \/ RunCall
    \/ RunTeardown

HookSpec == Init /\ [][HookNext]_vars

(* ====================================================================== *)
(* The test-run script: run_tests.py                                      *)
(* ====================================================================== *)
\* the store_true options of the parser
Flags == {"smoke", "regression", "all", "parallel", "examples", "install", "check", "help"}

\* args.test: None without --test, else the string given, which may be empty
Paths == {"None", "empty", "path"}

\* the return codes of the child process of an action
ExitCodes == 0..MaxExitCode

\* no invocation yet
NoMain ==
    [argc |-> 0, flags |-> {}, test |-> "None", help |-> FALSE, ran |-> <<>>,
     raised |-> FALSE, code |-> 0, exit_code |-> 0]

\* len(sys.argv): the script name, one word per option, two for --test PATH
Argc(flags, test) == 1 + Cardinality(flags) + (IF test = "None" THEN 0 ELSE 2)

\* (a chain that looks at --regression before --smoke)
Selected_RegressionFirst(flags, test) ==
    IF "check" \in flags THEN "check"
    ELSE IF "install" \in flags THEN "install"
    ELSE IF "examples" \in flags THEN "examples"
    ELSE IF "regression" \in flags THEN "regression"
    ELSE IF "smoke" \in flags THEN "smoke"
    ELSE IF "parallel" \in flags THEN "parallel"
    ELSE IF test = "path" THEN "test"
    ELSE IF "all" \in flags THEN "all"
    ELSE "none"

\* the if/elif chain of main(): the branch taken ("none": the else branch);
\* `elif args.test` is false for None and for the empty string
Selected(flags, test) ==
    IF "check" \in flags THEN "check"
    ELSE IF "install" \in flags THEN "install"
    ELSE IF "examples" \in flags THEN "examples"
    ELSE IF "smoke" \in flags THEN "smoke"
    ELSE IF "regression" \in flags THEN "regression"
    ELSE IF "parallel" \in flags THEN "parallel"
    ELSE IF test = "path" THEN "test"
    ELSE IF "all" \in flags THEN "all"
    ELSE "none"

\* the ways an action can end: check_environment returns True or False and
\* raises nothing (it catches every Exception); the others return the
\* return code of their child process, or raise when it cannot be started
Endings(a) ==
    IF a = "check" THEN {[raised |-> FALSE, code |-> c] : c \in {0, 1}}
    ELSE {[raised |-> FALSE, code |-> c] : c \in ExitCodes} \cup {[raised |-> TRUE, code |-> 0]}

\* exit_code after the try statement: 1 from the else branch and from the
\* except blocks, 1 for a failed check, else what the action returned
ExitCode(a, e) == IF a = "none" \/ e.raised THEN 1 ELSE e.code

\* main(), from the return of parser.parse_args()
Main ==
    /\ \E flags \in SUBSET Flags, test \in Paths :
          LET a == Selected(flags, test) IN
          IF Argc(flags, test) = 1 \/ "help" \in flags
          THEN main' = [NoMain EXCEPT !.argc = Argc(flags, test), !.flags = flags,
                                      !.test = test, !.help = TRUE]
          ELSE IF a = "none"
          THEN main' = [NoMain EXCEPT !.argc = Argc(flags, test), !.flags = flags,
                                      !.test = test, !.exit_code = 1]
          ELSE \E e \in Endings(a) :
                  main' = [argc |-> Argc(flags, test), flags |-> flags, test |-> test,
                           help |-> FALSE, ran |-> <<a>>, raised |-> e.raised,
                           code |-> e.code, exit_code |-> ExitCode(a, e)]
    /\ UNCHANGED notMain

MainNext == Main

MainSpec == Init /\ [][MainNext]_vars

(* ====================================================================== *)
(* Properties of the driver registry                                      *)
(* ====================================================================== *)
\* thread t is inside a `with self._lock` block of create_*, close_driver
\* or close_all_drivers
InCritical(t) ==
    \E i \in 1..Len(stack[t]) :
        /\ stack[t][i].fn \in {"create", "close", "close_all"}
        /\ stack[t][i].pc # "acquire"

\* thread t is in a create_* call that found its name registered
Overwriting(t) ==
    \E i \in 1..Len(stack[t]) :
        /\ stack[t][i].fn = "create"
        /\ stack[t][i].prior # NoHandle

\* C1: a create_* call on a name that already has an entry completes: while
\* it is in progress the calling thread can always take its next step, and
\* when it has returned the prior driver is shut down and the registry maps
\* the name to the driver just created.
C1_CreateReplacesPrior ==
    /\ \A t \in Threads : Overwriting(t) => ENABLED Step(t)
    /\ (last.fn = "create" /\ last.res = "ok" /\ last.prior # NoHandle) =>
          (last.prior \in shut /\ drivers[last.name] = last.h)

\* C2: whenever a get_temp_driver scope has been exited, normally or by an
\* exception, the registry no longer holds the entry the scope created.
C2_TempEntryRemovedOnExit ==
    (last.fn = "temp" /\ last.h # NoHandle) =>
        \A n \in AllNames : drivers[n] # last.h

\* C3: at most one thread is inside a create/close critical section, and
\* whenever the lock is free the registry is the one obtained by running the
\* finished calls one after the other, each having returned what it returns
\* in that serial run.
C3_MutualExclusion ==
    /\ Cardinality({t \in Threads : InCritical(t)}) <= 1
    /\ linearizable
    /\ lock = NoThread => drivers = serial

\* one thread removes an entry inside its critical section while the other
\* waits for the lock in a create_* of the same name
C3_Witness ==
    \E t1, t2 \in Threads :
        /\ t1 # t2
        /\ Running(t1, "close", "exit") /\ Top(t1).res = "true"
        /\ Running(t2, "create", "acquire") /\ Top(t2).name = Top(t1).name

(* ====================================================================== *)
(* Properties of the element and wait helpers                             *)
(* ====================================================================== *)
Polled == pc = "done" /\ op \in PollingOps /\ timeout > 0

\* C4: the polling wait returns True exactly when some evaluation of the
\* condition, begun before the deadline, returned true, and returns False
\* exactly when the deadline elapsed without any evaluation returning true.
C4_PollResult ==
    Polled =>
        /\ result \in {"True", "False"}
        /\ result = "True" <=> sawTrue
        /\ result = "True" => (0 <= evalAt /\ evalAt < timeout)
        /\ result = "False" <=> (~sawTrue /\ elapsed >= timeout)

\* a wait that returned True after at least one sleep
C4_Witness == Polled /\ op = "wait_for_condition" /\ result = "True" /\ evalAt > 0

\* C5: an exception raised by the condition never reaches the caller of the
\* wait and does not end the wait: a wait in which the condition raised
\* returns False only at the deadline, and returns True when a later
\* evaluation returned true.
C5_ExceptionSwallowed ==
    /\ result # "raised"
    /\ (Polled /\ sawRaise /\ result = "False") => elapsed >= timeout
    /\ (Polled /\ sawRaise /\ sawTrue) => result = "True"
    /\ (sawRaise /\ ~sawTrue) => (pc \in {"sleep", "test", "eval"} \/ result = "False")

\* the condition raised, a later evaluation returned true, the wait returned True
C5_Witness == Polled /\ sawRaise /\ sawTrue /\ result = "True"

\* C6: every polling wait eventually returns, and a wait whose condition
\* never returned true returns False.
C6_PollTerminates ==
    (pc \in {"test", "eval", "sleep"}) ~> (pc = "done" /\ (sawTrue \/ result = "False"))

\* a wait whose condition only ever raised or returned false ran into its deadline
C6_Witness == Polled /\ sawRaise /\ ~sawTrue /\ result = "False" /\ elapsed >= timeout

\* C7: no ElementHandler or WaitHandler operation lets an exception of the
\* driver library reach its caller; an operation during which the library
\* raised on every call returns its failure sentinel.
C7_FailureSentinel ==
    /\ result # "raised"
    /\ (pc = "done" /\ broken /\ Talks(op, drv)) => result = Sentinel(op)

\* C21: wait_for_element_displayed and wait_for_element_loaded return False
\* whenever the driver's own wait reports a timeout, be it by returning a
\* false result or by raising.
C21_NativeTimeoutIsFalse ==
    (/\ pc = "done"
     /\ op \in {"wait_for_element_displayed", "wait_for_element_loaded"}
     /\ given.w \in {"timeout", "raise"}) => result = "False"

\* C22: on every driver type, when the located element exists and is
\* displayed and its click() or input() does not raise, click_element and
\* input_text act on it exactly once and return True.
C22_ActsOnDisplayedElement ==
    (/\ pc = "done"
     /\ op \in {"click_element", "input_text"}
     /\ drv # "missing"
     /\ given.f = "elem"
     /\ given.w \in {"ok", "none"}
     /\ given.c = "ok") => (result = "True" /\ given.acts = 1)

\* C23: the deadline of a polling wait is the caller's timeout whenever one
\* is given, 0 included, and the configured default only when none is given;
\* a wait with timeout 0 never sleeps.
C23_DeadlineIsCallersTimeout ==
    (pc \in {"test", "eval", "sleep"}) =>
        /\ timeout = TicksPerSecond * (IF given.to = NoTimeout THEN ElementTimeout ELSE given.to)
        /\ given.to = 0 => pc # "sleep"

(* ====================================================================== *)
(* Properties of page objects and of the report generator                 *)
(* ====================================================================== *)
\* the navigation operations of a page object
NavOps == {"open", "refresh", "back", "forward", "switch_to_frame"}

C9_StatusInSet ==
    \A i \in 1..Len(test_results) : test_results[i].status \in Statuses

\* C9, amended: every record added by the result-recording hook has a status
\* in {PASS, FAIL, SKIP}, and it keeps it for as long as it is held.
C9_HookStatusInSet ==
    \A i \in 1..Len(test_results) :
       test_results[i].by = "hook" => test_results[i].status \in Statuses

\* a JSON report written from results that hold a skipped test recorded by the
\* hook and a record with another status added by a direct call
C9_Witness ==
    /\ report = Returned("json", "path", "ok")
    /\ \E i, j \in 1..Len(test_results) :
          /\ test_results[i] = Record("SKIP", "hook")
          /\ test_results[j].by = "caller"
          /\ test_results[j].status \notin Statuses

\* C10: whenever no registry operation is in progress, no handle stored in
\* the registry has been shut down.
C10_RegisteredHandlesLive ==
    (\A t \in Threads : AtUserCode(t)) =>
        \A n \in DOMAIN drivers : drivers[n] # NoHandle => drivers[n] \notin shut

(* ====================================================================== *)
(* Properties of the registry's readers and of close_driver               *)
(* ====================================================================== *)
\* no create_*, close_driver or close_all_drivers call is in progress
Quiet ==
    \A t \in Threads : \A i \in 1..Len(stack[t]) :
       stack[t][i].fn \notin {"create", "close", "close_all"}

\* C11: once the create_* and close_driver calls made so far have returned,
\* list_drivers returns exactly the names created and not successfully
\* closed since, get_driver(n) returns the handle created last under n, and
\* get_driver_info(n) is a dictionary whose name is n for every such n.
C11_ReadersAgree ==
    /\ (last.fn = "list" /\ last.t = MainThread) => last.res = "ok"
    /\ Quiet =>
         /\ last.fn = "get" => last.h = serial[last.name]
         /\ (last.fn = "info" /\ serial[last.name] # NoHandle) =>
               /\ last.res = "info"
               /\ last.h = serial[last.name]
               /\ last.val = {<<"name", last.name>>}
         /\ (last.fn = "list" /\ last.res = "ok") =>
               /\ {it[1] : it \in last.val} = Keys(serial)
               /\ last.val = Items(serial)

\* list_drivers after two creations and one successful close: one name
C11_Witness ==
    /\ Quiet
    /\ last.fn = "list"
    /\ last.res = "ok"
    /\ shut # {}
    /\ \E n \in UserNames : last.val = {<<n, nextHandle - 1>>}

\* C12: every step of a create_*(n) or close_driver(n) call leaves the entry
\* of every other name m alone: the handle registered under m is not
\* removed, not replaced and not shut down, whatever the call's outcome.
C12_OnlyOwnEntry ==
    [][\A m \in AllNames :
          (drivers'[m] # drivers[m] \/ (drivers[m] # NoHandle /\ drivers[m] \in shut' \ shut))
             => \E t \in Threads :
                   /\ stack[t] # <<>>
                   /\ stack'[t] # stack[t]
                   /\ Top(t).fn \in {"create", "close"}
                   /\ Top(t).name = m]_vars

\* a close_driver(n) that succeeded while another name holds a live driver
C12_Witness ==
    /\ last.fn = "close"
    /\ last.res = "true"
    /\ \E m \in AllNames :
          /\ m # last.name
          /\ drivers[m] # NoHandle
          /\ drivers[m] \notin shut

\* C13, as stated: a close_driver(name) that follows a close_driver(name)
\* which returned False returns False.  (last.prior is the driver that an
\* earlier close_driver of the name had already shut down when its shutdown
\* call raised.)
C13_SecondCloseFalse ==
    (last.fn = "close" /\ last.prior # NoHandle) => last.res = "false"

\* C13, amended: close_driver(name) returns True exactly when name was
\* registered and the shutdown call returned, and then the entry is removed
\* and the driver shut down; otherwise it returns False and the registry is
\* as it was when the call took the lock.
C13_CloseResult ==
    last.fn = "close" =>
        /\ last.res \in {"true", "false"}
        /\ last.res = "true" <=> (last.before[last.name] # NoHandle /\ last.lib = "ok")
        /\ last.res = "true" =>
              /\ drivers = [last.before EXCEPT ![last.name] = NoHandle]
              /\ last.h = last.before[last.name]
              /\ last.h \in shut
        /\ last.res = "false" => drivers = last.before

\* a close_driver that returned True for a driver which an earlier
\* close_driver of the same name, returning False, had left registered
C13_Witness ==
    /\ last.fn = "close"
    /\ last.res = "true"
    /\ last.prior # NoHandle
    /\ drivers[last.name] = NoHandle

(* ====================================================================== *)
(* Properties of report generation                                        *)
(* ====================================================================== *)
\* C14: generate_html_report returns the non-empty path of the file it wrote
\* whenever the file can be written, and returns the empty string only when
\* writing the file failed.
C14_HtmlReportWritten ==
    report.by = "html" =>
        /\ report.ret = "" => report.io = "failed"
        /\ report.ret # "" => (report.ret = "path" /\ report.io = "ok")

(* ====================================================================== *)
(* Properties of the registry's lock and of close_all_drivers             *)
(* ====================================================================== *)
\* C15: no registry call blocks forever; in particular no thread ever waits
\* for the lock while it holds that lock itself (a wait that cannot end,
\* because only the waiting thread could release the lock).
C15_NoSelfWait ==
    \A t \in Threads :
       ~(stack[t] # <<>> /\ Top(t).pc = "acquire" /\ lock = t)

\* C16: close_all_drivers closes what is registered: once it has taken the
\* names to close, the calling thread can go on until the drivers are shut
\* down, the registry is empty and the call returns.
C16_CloseAllProceeds ==
    \A t \in Threads :
       (\E i \in 1..Len(stack[t]) :
            stack[t][i].fn = "close_all" /\ stack[t][i].pc = "closing")
          => ENABLED Step(t)

C18_NoLeak ==
    \A h \in 1..(nextHandle - 1) :
       h \notin shut => Cardinality({n \in AllNames : drivers[n] = h}) = 1

\* a close_driver whose shutdown raised without effect: the driver runs on
\* and is still registered
C18_Witness ==
    /\ last.fn = "close"
    /\ last.res = "false"
    /\ last.lib = "raise"
    /\ last.h \notin shut
    /\ drivers[last.name] = last.h

(* ====================================================================== *)
(* Properties of concurrent readers and of temporary scopes               *)
(* ====================================================================== *)
\* C19: while another thread runs close_driver or create_*, get_driver and
\* list_drivers never return a handle that has already been shut down, and
\* list_drivers always returns, with the registry's contents at one instant.
C19_ReadersSeeLiveSnapshot ==
    /\ last.fn = "get" => last.h \notin shut
    /\ last.fn = "list" =>
          /\ last.res = "ok"
          /\ last.val = Items(drivers)
          /\ \A it \in last.val : it[2] \notin shut

\* C20: the get_temp_driver scopes that have been entered and not yet left,
\* in different threads or nested in one thread, each use a registry entry
\* of their own: no two of them have the same name.
C20_ScopesOwnDistinctEntries ==
    \A t \in Threads, u \in Threads :
       \A i \in 1..Len(stack[t]), j \in 1..Len(stack[u]) :
          (/\ stack[t][i].fn = "temp"
           /\ stack[u][j].fn = "temp"
           /\ <<t, i>> # <<u, j>>)
             => stack[t][i].name # stack[u][j].name

(* ====================================================================== *)
(* Properties of the statistics and of the accumulated results            *)
(* ====================================================================== *)
\* the statuses of the accumulated records, one per record
StatusesOf(results) == {<<i, results[i].status>> : i \in 1..Len(results)}

\* C24: the statistics give the number of records as total_tests and the
\* records with status PASS, FAIL and SKIP as passed, failed and skipped;
\* their sum is at most the total and equals it exactly when every status is
\* one of the three; the pass rate lies between 0 and 100 per cent and is 0
\* when there are no records.
C24_Statistics ==
    stats # NoStats =>
        LET all == StatusesOf(test_results)
            known == {e \in all : e[2] \in Statuses}
            sum == stats.passed_tests + stats.failed_tests + stats.skipped_tests
        IN  /\ stats.total_tests = Cardinality(all)
            /\ stats.passed_tests = Cardinality({e \in all : e[2] = "PASS"})
            /\ stats.failed_tests = Cardinality({e \in all : e[2] = "FAIL"})
            /\ stats.skipped_tests = Cardinality({e \in all : e[2] = "SKIP"})
            /\ sum <= stats.total_tests
            /\ (sum = stats.total_tests) <=> (known = all)
            /\ 0 <= stats.pass_rate /\ stats.pass_rate <= 100 * 100
            /\ stats.total_tests = 0 => stats.pass_rate = 0

\* the summary of three records, one passed, one failed and one with a
\* status that is not counted: a pass rate of 33.33 per cent
C24_Witness ==
    /\ report.by = "summary"
    /\ stats.total_tests = 3
    /\ stats.passed_tests = 1
    /\ stats.failed_tests = 1
    /\ stats.skipped_tests = 0
    /\ stats.pass_rate = 3333

\* C25: the accumulated results are exactly the records given to
\* add_test_result since the most recent start_test_session (or since
\* construction), in the order of the calls; ending the session and
\* generating a report leave them as they are.
C25_ResultsAreAdded == test_results = added

\* a session that was started and ended, holds two different records, and
\* has just been written as a JSON report
C25_Witness ==
    /\ start_time # NoTime
    /\ end_time # NoTime
    /\ Len(test_results) = 2
    /\ test_results[1] # test_results[2]
    /\ report = Returned("json", "path", "ok")

\* C26: the duration the statistics report is never negative, and is 0
\* unless the session has been both started and ended.
C26_DurationNotNegative ==
    stats # NoStats =>
        /\ stats.duration >= 0
        /\ (start_time = NoTime \/ end_time = NoTime) => stats.duration = 0

\* C27: when the runner has taken a test through its phases, the hook has
\* added exactly one record for it.
C27_OneRecordPerTest == run.phase = "done" => run.recs = 1

(* ====================================================================== *)
(* Properties of the frame switch of a page object                        *)
(* ====================================================================== *)
\* C28: switch_to_default_content called right after a switch_to_frame that
\* left the page object in a frame gives it back the main-page handle the
\* frame belongs to, and its next driver access does not raise, however the
\* page object obtained its driver.
C28_FrameRoundTrip ==
    [][(/\ p_res.op = "switch_to_frame"
        /\ p_drv < 0
        /\ p_res'.op = "switch_to_default_content")
       => (p_drv' = PageOf(p_drv) /\ Resolved' # NoHandle)]_vars

(* ====================================================================== *)
(* Properties of the test-run script                                      *)
(* ====================================================================== *)
\* the order in which the actions are considered
ActionOrder ==
    <<"check", "install", "examples", "smoke", "regression", "parallel", "test", "all">>

\* the invocation asks for the action: its option is given (for test: with
\* a path)
Wanted(a) == IF a = "test" THEN main.test = "path" ELSE a \in main.flags

\* C29: an invocation starts at most one action; without arguments or with
\* --help it only shows the help and returns 0; otherwise it runs exactly
\* the first action asked for, in the order check, install, examples, smoke,
\* regression, parallel, test, all, and returns the exit code of that
\* action, or 1 when the action raised.
C29_OneActionPerInvocation ==
    main.argc > 0 =>
        /\ Len(main.ran) <= 1
        /\ IF main.argc = 1 \/ "help" \in main.flags
           THEN main.help /\ main.ran = <<>> /\ main.exit_code = 0
           ELSE \A i \in 1..Len(ActionOrder) :
                   (Wanted(ActionOrder[i]) /\ \A j \in 1..(i - 1) : ~Wanted(ActionOrder[j]))
                   => /\ ~main.help
                      /\ main.ran = <<ActionOrder[i]>>
                      /\ main.exit_code = (IF main.raised THEN 1 ELSE main.code)

\* --smoke together with --regression: only the smoke selection ran, and its
\* exit code 2 was returned
C29_Witness ==
    /\ main.flags = {"smoke", "regression"}
    /\ main.ran = <<"smoke">>
    /\ ~main.raised
    /\ main.exit_code = 2
====
